---- MODULE Spec2Model ----
(***************************************************************************)
(* A model of the bytecode interpreter of src/src/interpreter.rs: the      *)
(* instruction buffer and its little-endian operand encoding               *)
(* (Instructions), the fixed-capacity operand stack (Stack) and the        *)
(* fetch-decode-execute loop (Interpreter::run).                           *)
(*                                                                         *)
(* Number representation.  TLC integers are 32-bit, so                     *)
(*   - an i32 is a TLC integer in I32Min..I32Max;                          *)
(*   - a u8 / u16 is a TLC integer in 0..255 / 0..65535;                   *)
(*   - a u32 is the record [lo, hi] of its two 16-bit halves;              *)
(*   - a usize (64-bit target) is the record [lo, hi] of its two 32-bit    *)
(*     halves, each written as the i32 that has the same bits, so          *)
(*     usize::MAX is [lo |-> -1, hi |-> -1] and n < 2^31 is                *)
(*     [lo |-> n, hi |-> 0].                                               *)
(* Arithmetic that can overflow is computed with its wrapped result and an *)
(* overflow flag; the build profile (overflow_checks) decides whether the  *)
(* overflow panics (debug) or wraps (release).                             *)
(***************************************************************************)
EXTENDS Integers, Sequences, FiniteSets, TLC

VARIABLES
    \* ---- Interpreter (src/src/interpreter.rs:321-327) ----
    instructions,     \* Interpreter.instructions.instructions : Vec<u8>
    stack,            \* Interpreter.stack.stack : Vec<i32>, indexed 0..len-1
    stack_ptr,        \* Interpreter.stack.ptr : usize
    ptr,              \* Interpreter.ptr : usize (instruction pointer)
    frame_ptr,        \* Interpreter.frame_ptr : usize
    flags,            \* Interpreter.flags : Flags
    output,           \* values written by println!("Outputed: {}")
    status,           \* "running" | "halted" (run returned) | "panicked"
    panic,            \* which panic ended the run ("" while none)
    overflow_checks,  \* build profile: TRUE = debug (overflow panics), FALSE = release (wraps)
    \* ---- history of the calls in progress (one record per Call not yet returned) ----
    frames,
    \* ---- history of the operations applied to a bare Stack, and of the ----
    \* ---- fetches of a run                                            ----
    history,          \* one record [op, val, ok] per Stack::push / Stack::pop call,
                      \* or per next_instruction call (the first length + 2 of a run)
    \* ---- a buffer under construction (Instructions) ----
    code,             \* Instructions.instructions : Vec<u8>
    code_panicked,    \* an operation on the buffer panicked (index out of bounds)
    op,               \* the last operation applied to the buffer; while the
                      \* buffer is displayed, the `index` of Display::fmt and the
                      \* lines it has started
    \* ---- a host running several Interpreters ----
    instances,        \* the Interpreters of the host, each with the turns it has taken
    stdout            \* the process's standard output: who printed which value

vars == <<instructions, stack, stack_ptr, ptr, frame_ptr, flags, output, status,
          panic, overflow_checks, frames, history, code, code_panicked, op,
          instances, stdout>>

interpVars == <<instructions, stack, stack_ptr, ptr, frame_ptr, flags, output,
                status, panic, frames>>
codeVars == <<code, code_panicked, op>>
hostVars == <<instances, stdout>>

-----------------------------------------------------------------------------
(* Integer widths *)

U8Mod == 256
U16Mod == 65536
I16SignBit == 32768
I32Max == 2147483647
I32Min == (-I32Max) - 1

\* bytemuck::cast::<i32, u32>: the same 32 bits, as two 16-bit halves
CastU32(v) == [lo |-> v % U16Mod, hi |-> (v \div U16Mod) % U16Mod]

\* bytemuck::cast::<u32, i32>: the same 32 bits, as a signed value
CastI32(u) ==
    IF u.hi >= I16SignBit
    THEN ((u.hi - U16Mod) * U16Mod) + u.lo
    ELSE (u.hi * U16Mod) + u.lo

\* `val as u16` of a u32
U32AsU16(u) == u.lo
\* `val >> 16` of a u32
U32Shr16(u) == [lo |-> u.hi, hi |-> 0]
\* `val as u8` of a u16
U16AsU8(h) == h % U8Mod
\* `val >> 8` of a u16
U16Shr8(h) == h \div U8Mod

-----------------------------------------------------------------------------
(* Instructions: the byte buffer and its operand encoding.  A buffer        *)
(* object is the record [instructions, panicked]; an operation on a         *)
(* panicked object does nothing (the process is gone).                      *)

Buf(bytes) == [instructions |-> bytes, panicked |-> FALSE]

\* Instructions::push (Vec::push)
Instructions_push(b, val) ==
    IF b.panicked THEN b
    ELSE [b EXCEPT !.instructions = Append(b.instructions, val)]

\* Instructions::len
Instructions_len(b) == Len(b.instructions)

\* Instructions::push_instruction: the opcode's byte (u8::from(ins))
push_instruction(b, ins) == Instructions_push(b, ins)

push_u8_operand(b, val) == Instructions_push(b, val)

push_u16_operand(b, val) ==
    push_u8_operand(push_u8_operand(b, U16AsU8(val)), U16AsU8(U16Shr8(val)))

\* a variant of push_u32_operand that appends the high half first
push_u32_operand_high_first(b, val) ==
    push_u16_operand(push_u16_operand(b, U32AsU16(U32Shr16(val))), U32AsU16(val))

push_u32_operand(b, val) ==
    push_u16_operand(push_u16_operand(b, U32AsU16(val)), U32AsU16(U32Shr16(val)))

push_i32_operand(b, val) == push_u32_operand(b, CastU32(val))

\* IndexMut on the Vec: panics when index >= len
set_u8_operand(b, val, index) ==
    IF b.panicked THEN b
    ELSE IF index < Len(b.instructions)
         THEN [b EXCEPT !.instructions[index + 1] = val]
         ELSE [b EXCEPT !.panicked = TRUE]

\* a variant of set_u16_operand that writes the high byte one place too far
set_u16_operand_skips(b, val, index) ==
    set_u8_operand(set_u8_operand(b, U16AsU8(val), index),
                   U16AsU8(U16Shr8(val)), index + 2)

set_u16_operand(b, val, index) ==
    set_u8_operand(set_u8_operand(b, U16AsU8(val), index),
                   U16AsU8(U16Shr8(val)), index + 1)

set_u32_operand(b, val, index) ==
    set_u16_operand(set_u16_operand(b, U32AsU16(val), index),
                    U32AsU16(U32Shr16(val)), index + 2)

set_i32_operand(b, val, index) == set_u32_operand(b, CastU32(val), index)

\* Whether the width bytes at index are inside the buffer (no read panics)
Readable(bytes, index, width) == index + width <= Len(bytes)

\* Index on the Vec (the caller has checked Readable)
get_u8(bytes, index) == bytes[index + 1]

\* a variant of get_u16 that reads the high byte first
get_u16_high_first(bytes, index) ==
    (get_u8(bytes, index) * U8Mod) + get_u8(bytes, index + 1)

get_u16(bytes, index) ==
    get_u8(bytes, index) + (get_u8(bytes, index + 1) * U8Mod)

get_u32(bytes, index) ==
    [lo |-> get_u16(bytes, index), hi |-> get_u16(bytes, index + 2)]

get_i32(bytes, index) == CastI32(get_u32(bytes, index))

\* Interpreter's own copies of the same operations, on self.instructions
Interpreter_push_u8_operand(b, val) == Instructions_push(b, val)

Interpreter_push_u16_operand(b, val) ==
    Interpreter_push_u8_operand(
        Interpreter_push_u8_operand(b, U16AsU8(val)), U16AsU8(U16Shr8(val)))

Interpreter_push_u32_operand(b, val) ==
    Interpreter_push_u16_operand(
        Interpreter_push_u16_operand(b, U32AsU16(val)), U32AsU16(U32Shr16(val)))

Interpreter_push_i32_operand(b, val) == Interpreter_push_u32_operand(b, CastU32(val))

Interpreter_set_u8_operand(b, val, index) ==
    IF b.panicked THEN b
    ELSE IF index < Len(b.instructions)
         THEN [b EXCEPT !.instructions[index + 1] = val]
         ELSE [b EXCEPT !.panicked = TRUE]

Interpreter_set_u16_operand(b, val, index) ==
    Interpreter_set_u8_operand(
        Interpreter_set_u8_operand(b, U16AsU8(val), index),
        U16AsU8(U16Shr8(val)), index + 1)

Interpreter_set_u32_operand(b, val, index) ==
    Interpreter_set_u16_operand(
        Interpreter_set_u16_operand(b, U32AsU16(val), index),
        U32AsU16(U32Shr16(val)), index + 2)

Interpreter_set_i32_operand(b, val, index) ==
    Interpreter_set_u32_operand(b, CastU32(val), index)

Interpreter_get_u8(bytes, index) == bytes[index + 1]

Interpreter_get_u16(bytes, index) ==
    Interpreter_get_u8(bytes, index) + (Interpreter_get_u8(bytes, index + 1) * U8Mod)

Interpreter_get_u32(bytes, index) ==
    [lo |-> Interpreter_get_u16(bytes, index),
     hi |-> Interpreter_get_u16(bytes, index + 2)]

-----------------------------------------------------------------------------
(* usize and i32 arithmetic *)

\* a usize below 2^31, e.g. a length or an index
Usize(n) == [lo |-> n, hi |-> 0]
\* usize::MAX
UsizeMax == [lo |-> -1, hi |-> -1]
\* `v as u32 as usize` of an i32
I32AsUsize(v) == [lo |-> v, hi |-> 0]
\* `x as u32 as i32` of a usize
UsizeAsI32(x) == x.lo
\* x < n, for a length n below 2^31
UsizeLt(x, n) == x.hi = 0 /\ x.lo >= 0 /\ x.lo < n
\* wrapping +1 / -1 on one 32-bit half
WordInc(w) == IF w = I32Max THEN I32Min ELSE w + 1
WordDec(w) == IF w = I32Min THEN I32Max ELSE w - 1
\* x + 1 and x - 1, wrapped to 64 bits
UsizeInc(x) == [lo |-> WordInc(x.lo), hi |-> IF x.lo = -1 THEN WordInc(x.hi) ELSE x.hi]
UsizeDec(x) == [lo |-> WordDec(x.lo), hi |-> IF x.lo = 0 THEN WordDec(x.hi) ELSE x.hi]

\* a + b on i32: the wrapped result and whether it overflowed
I32Add(a, b) ==
    IF a >= 0 /\ b >= 0 /\ a > I32Max - b
    THEN [v |-> ((a + I32Min) + b) + I32Min, o |-> TRUE]
    ELSE IF a < 0 /\ b < 0 /\ a < I32Min - b
    THEN [v |-> ((a - I32Min) + b) - I32Min, o |-> TRUE]
    ELSE [v |-> a + b, o |-> FALSE]

\* a - b on i32: the wrapped result and whether it overflowed
I32Sub(a, b) ==
    IF a >= 0 /\ b < 0 /\ a > I32Max + b
    THEN [v |-> ((a + I32Min) - b) + I32Min, o |-> TRUE]
    ELSE IF a < 0 /\ b >= 0 /\ a < I32Min + b
    THEN [v |-> ((a - I32Min) - b) - I32Min, o |-> TRUE]
    ELSE [v |-> a - b, o |-> FALSE]

\* the low 16 bits of the product of two 16-bit values
MulLow16(x, y) ==
    ((x * (y % U8Mod)) + (((x * (y \div U8Mod)) % U8Mod) * U8Mod)) % U16Mod

\* a * b wrapped to 32 bits, by long multiplication on the 16-bit halves
I32MulWrap(a, b) ==
    LET x == CastU32(a)
        y == CastU32(b)
        p0 == x.lo * (y.lo % U8Mod)
        p1 == x.lo * (y.lo \div U8Mod)
        s == p0 + ((p1 % U8Mod) * U8Mod)
        c == (s \div U16Mod) + (p1 \div U8Mod)
    IN  CastI32([lo |-> s % U16Mod,
                 hi |-> (c + MulLow16(x.hi, y.lo) + MulLow16(x.lo, y.hi)) % U16Mod])

\* a * b on i32: the wrapped result and whether it overflowed (the wrapped
\* result is not the exact product)
I32Mul(a, b) ==
    LET w == I32MulWrap(a, b)
        aa == IF a < 0 THEN -a ELSE a
        exact == IF a = 0 THEN TRUE
                 ELSE IF a = -1 THEN b # I32Min
                 ELSE IF a = I32Min THEN b \in {0, 1}
                 ELSE /\ w % aa = 0
                      /\ IF a > 0 THEN w \div aa = b
                         ELSE b # I32Min /\ w \div aa = -b
    IN  [v |-> w, o |-> ~exact]

\* a / b on i32 for b # 0 and not (a = I32Min and b = -1): rounds toward zero
I32Div(a, b) ==
    IF b = I32Min THEN (IF a = I32Min THEN 1 ELSE 0)
    ELSE LET bb == IF b < 0 THEN -b ELSE b
             qf == a \div bb
             qt == IF a < 0 /\ a % bb # 0 THEN qf + 1 ELSE qf
         IN  IF b < 0 THEN -qt ELSE qt

-----------------------------------------------------------------------------
(* Instruction: the opcode enumeration, in declaration order (#[repr(u8)]) *)

InstructionNames ==
    << "Nop", "Hlt", "I32Add", "I32Sub", "I32Mul", "I32Div", "Push", "Pop",
       "CompilerCall", "Call", "Ret", "PushReg", "PopReg", "Store", "Load",
       "StoreRelative", "LoadRelative", "StackAdd", "Deref", "Lea",
       "DerefAssign", "DerefAssignRelative", "Cmp", "Jmp", "Jz", "Jnz",
       "Greater", "GreaterEqual", "Lesser", "LesserEqual", "Equal", "NotEqual" >>

\* a decode that keeps the low five bits of the byte
InstructionFromU8_low_bits(val) == InstructionNames[(val % Len(InstructionNames)) + 1]

\* impl From<u8> for Instruction: 0..31 by position, any other byte is Nop
InstructionFromU8(val) ==
    IF val < Len(InstructionNames) THEN InstructionNames[val + 1] ELSE "Nop"

\* impl From<Instruction> for u8: the discriminant
U8FromInstruction(ins) ==
    (CHOOSE i \in 1..Len(InstructionNames) : InstructionNames[i] = ins) - 1

\* Flags::new
Flags_new ==
    [not_zero |-> FALSE, less_then |-> FALSE, larger_then |-> FALSE,
     equals |-> FALSE, overflow |-> FALSE, underflow |-> FALSE,
     halted |-> FALSE, carry |-> FALSE, div_by_zero |-> FALSE]

-----------------------------------------------------------------------------
(* The machine: the Interpreter's fields as one record, with                *)
(*   oc   the build's overflow checks,                                      *)
(*   ret  the i32 (or u8) the last helper returned,                         *)
(*   ins  the Instruction next_instruction returned.                        *)
(* A helper applied to a machine that is no longer running does nothing:    *)
(* the panic has unwound the run.                                           *)

Panic(m, why) == [m EXCEPT !.status = "panicked", !.panic = why]

\* Checked with the overflow panic compiled into every build
Checked_in_every_build(m, r) ==
    IF m.status # "running" THEN m
    ELSE IF r.o THEN Panic(m, "arithmetic overflow")
    ELSE [m EXCEPT !.ret = r.v]

\* The result r = [v, o] of an i32 operation: a panic when it overflowed and
\* overflow checks are on, the wrapped value otherwise
Checked(m, r) ==
    IF m.status # "running" THEN m
    ELSE IF r.o /\ m.oc THEN Panic(m, "arithmetic overflow")
    ELSE [m EXCEPT !.ret = r.v]

\* Stack::new(size), for size >= 1
Stack_new(size) == [stack |-> [i \in 1..size |-> 0], ptr |-> Usize(size - 1)]

\* Stack::get
Stack_get(m, index) ==
    IF m.status # "running" THEN m
    ELSE IF UsizeLt(index, Len(m.stack))
         THEN [m EXCEPT !.ret = m.stack[index.lo + 1]]
         ELSE Panic(m, "index out of bounds")

\* Stack::set
Stack_set(m, index, val) ==
    IF m.status # "running" THEN m
    ELSE IF UsizeLt(index, Len(m.stack))
         THEN [m EXCEPT !.stack[index.lo + 1] = val]
         ELSE Panic(m, "index out of bounds")

\* Stack::push
Stack_push(m, val) ==
    IF m.status # "running" THEN m
    ELSE IF ~UsizeLt(m.stack_ptr, Len(m.stack))
         THEN Panic(m, "Tried to push beyond stack limit!")
         ELSE LET w == [m EXCEPT !.stack[m.stack_ptr.lo + 1] = val]
              IN  IF m.stack_ptr = Usize(0) /\ m.oc
                  THEN Panic(w, "attempt to subtract with overflow")
                  ELSE [w EXCEPT !.stack_ptr = UsizeDec(m.stack_ptr)]

\* Stack::pop reading its cell without a bounds check, the index wrapped into
\* the cells
Stack_pop_unchecked(m) ==
    IF m.status # "running" THEN m
    ELSE IF m.stack_ptr = UsizeMax /\ m.oc
         THEN Panic(m, "attempt to add with overflow")
         ELSE LET w == [m EXCEPT !.stack_ptr = UsizeInc(m.stack_ptr)]
              IN  [w EXCEPT !.ret = w.stack[(w.stack_ptr.lo % Len(w.stack)) + 1]]

\* Stack::pop
Stack_pop(m) ==
    IF m.status # "running" THEN m
    ELSE IF m.stack_ptr = UsizeMax /\ m.oc
         THEN Panic(m, "attempt to add with overflow")
         ELSE LET w == [m EXCEPT !.stack_ptr = UsizeInc(m.stack_ptr)]
              IN  IF UsizeLt(w.stack_ptr, Len(w.stack))
                  THEN [w EXCEPT !.ret = w.stack[w.stack_ptr.lo + 1]]
                  ELSE Panic(w, "index out of bounds")

\* the capacity Interpreter::new gives its stack
StackSize == 1024

\* Interpreter::new
Interpreter_new(bytes, oc) ==
    [instructions |-> bytes,
     stack |-> Stack_new(StackSize).stack,
     stack_ptr |-> Stack_new(StackSize).ptr,
     ptr |-> Usize(0),
     frame_ptr |-> Usize(0),
     flags |-> Flags_new,
     output |-> << >>,
     status |-> "running",
     panic |-> "",
     oc |-> oc,
     ret |-> 0,
     ins |-> "Nop"]

\* Interpreter::stack_push, Interpreter::stack_pop
stack_push(m, val) == Stack_push(m, val)
stack_pop(m) == Stack_pop(m)

\* next_instruction with the `self.ptr += 1` left out
next_instruction_stays(m) ==
    IF ~UsizeLt(m.ptr, Len(m.instructions))
    THEN [m EXCEPT !.ins = "Hlt"]
    ELSE [m EXCEPT !.ins = InstructionFromU8(Interpreter_get_u8(m.instructions, m.ptr.lo))]

\* Interpreter::next_instruction
next_instruction(m) ==
    IF ~UsizeLt(m.ptr, Len(m.instructions))
    THEN [m EXCEPT !.ins = "Hlt"]
    ELSE [m EXCEPT !.ins = InstructionFromU8(Interpreter_get_u8(m.instructions, m.ptr.lo)),
                   !.ptr = UsizeInc(m.ptr)]

\* next_i32 with `self.ptr += 3` for `self.ptr += 4`
next_i32_short(m) ==
    IF m.status # "running" THEN m
    ELSE IF UsizeLt(m.ptr, Len(m.instructions))
            /\ Readable(m.instructions, m.ptr.lo, 4)
         THEN [m EXCEPT !.ret = CastI32(Interpreter_get_u32(m.instructions, m.ptr.lo)),
                        !.ptr = UsizeInc(UsizeInc(UsizeInc(m.ptr)))]
         ELSE Panic(m, "index out of bounds")

\* Interpreter::next_i32: get_u32 panics unless its four bytes are in the buffer
next_i32(m) ==
    IF m.status # "running" THEN m
    ELSE IF UsizeLt(m.ptr, Len(m.instructions))
            /\ Readable(m.instructions, m.ptr.lo, 4)
         THEN [m EXCEPT !.ret = CastI32(Interpreter_get_u32(m.instructions, m.ptr.lo)),
                        !.ptr = UsizeInc(UsizeInc(UsizeInc(UsizeInc(m.ptr))))]
         ELSE Panic(m, "index out of bounds")

\* Interpreter::next_u8
next_u8(m) ==
    IF m.status # "running" THEN m
    ELSE IF UsizeLt(m.ptr, Len(m.instructions))
         THEN [m EXCEPT !.ret = Interpreter_get_u8(m.instructions, m.ptr.lo),
                        !.ptr = UsizeInc(m.ptr)]
         ELSE Panic(m, "index out of bounds")

-----------------------------------------------------------------------------
(* Interpreter::run: one arm of the match per operator; m is the machine    *)
(* after next_instruction.                                                   *)

\* `(a OP b) as i32` of a comparison
BoolAsI32(m, b) == IF m.status # "running" THEN m ELSE [m EXCEPT !.ret = IF b THEN 1 ELSE 0]

Run_Lea(m) ==
    LET m1 == next_i32(m)
        m2 == Checked(m1, I32Add(m1.ret, UsizeAsI32(m1.frame_ptr)))
    IN  stack_push(m2, m2.ret)

AddResult(m, a, b) == Checked(m, I32Add(a, b))

\* SubResult with the second popped value as the left-hand operand
SubResult_second_popped_left(m, a, b) == Checked(m, I32Sub(b, a))

SubResult(m, a, b) == Checked(m, I32Sub(a, b))

MulResult(m, a, b) == Checked(m, I32Mul(a, b))

\* DivResult with the div_by_zero flag raised before the panic on b = 0
DivResult_raises_flag(m, a, b) ==
    IF m.status # "running" THEN m
    ELSE IF b = 0
         THEN Panic([m EXCEPT !.flags.div_by_zero = TRUE], "attempt to divide by zero")
    ELSE IF a = I32Min /\ b = -1 THEN Panic(m, "attempt to divide with overflow")
    ELSE [m EXCEPT !.ret = I32Div(a, b)]

\* a / b panics on b = 0 and on i32::MIN / -1 in every build
DivResult(m, a, b) ==
    IF m.status # "running" THEN m
    ELSE IF b = 0 THEN Panic(m, "attempt to divide by zero")
    ELSE IF a = I32Min /\ b = -1 THEN Panic(m, "attempt to divide with overflow")
    ELSE [m EXCEPT !.ret = I32Div(a, b)]

Run_Push(m) ==
    LET m1 == next_i32(m)
    IN  stack_push(m1, m1.ret)

Run_Pop(m) == stack_pop(m)

\* self.stack.ptr + 1 is a usize addition
\* the CompilerCall arm with `self.stack.get(self.stack.ptr)` for
\* `self.stack.get(self.stack.ptr+1)`
Run_CompilerCall_reads_ptr(m) ==
    LET m1 == next_i32(m)
        function == m1.ret
    IN  IF m1.status # "running" THEN m1
        ELSE IF function = 0 THEN m1
        ELSE IF function = 1
             THEN LET m2 == Stack_get(m1, m1.stack_ptr)
                  IN  IF m2.status # "running" THEN m2
                      ELSE [m2 EXCEPT !.output = Append(m2.output, m2.ret)]
        ELSE Panic(m1, "Compiler call failed function with index does not exist")

Run_CompilerCall(m) ==
    LET m1 == next_i32(m)
        function == m1.ret
    IN  IF m1.status # "running" THEN m1
        ELSE IF function = 0 THEN m1
        ELSE IF function = 1
             THEN IF m1.stack_ptr = UsizeMax /\ m1.oc
                  THEN Panic(m1, "attempt to add with overflow")
                  ELSE LET m2 == Stack_get(m1, UsizeInc(m1.stack_ptr))
                       IN  IF m2.status # "running" THEN m2
                           ELSE [m2 EXCEPT !.output = Append(m2.output, m2.ret)]
        ELSE Panic(m1, "Compiler call failed function with index does not exist")

Run_Call(m) ==
    LET m1 == next_i32(m)
        destination == m1.ret
        m2 == stack_push(m1, UsizeAsI32(m1.ptr))
        m3 == stack_push(m2, UsizeAsI32(m2.frame_ptr))
    IN  IF m3.status # "running" THEN m3
        ELSE [m3 EXCEPT !.ptr = I32AsUsize(destination),
                        !.frame_ptr = m3.stack_ptr]

Run_Ret(m) ==
    LET m1 == stack_pop(m)
        m2 == IF m1.status # "running" THEN m1
              ELSE [m1 EXCEPT !.frame_ptr = I32AsUsize(m1.ret)]
        m3 == stack_pop(m2)
    IN  IF m3.status # "running" THEN m3
        ELSE [m3 EXCEPT !.ptr = I32AsUsize(m3.ret)]

Run_PopReg(m) ==
    LET m1 == next_u8(m)
        dst == m1.ret
        m2 == stack_pop(m1)
        val == m2.ret
    IN  IF m2.status # "running" THEN m2
        ELSE IF dst = 0 THEN m2
        ELSE IF dst = 1 THEN [m2 EXCEPT !.ptr = I32AsUsize(val)]
        ELSE IF dst = 2 THEN [m2 EXCEPT !.stack_ptr = I32AsUsize(val)]
        ELSE IF dst = 3 THEN [m2 EXCEPT !.frame_ptr = I32AsUsize(val)]
        ELSE Panic(m2, "explicit panic")

\* the PushReg arm with `_ => {}` for `_ => panic!()`
Run_PushReg_lenient(m) ==
    LET m1 == next_u8(m)
        src == m1.ret
    IN  IF m1.status # "running" THEN m1
        ELSE IF src = 0 THEN m1
        ELSE IF src = 1 THEN stack_push(m1, UsizeAsI32(m1.ptr))
        ELSE IF src = 2 THEN stack_push(m1, UsizeAsI32(m1.stack_ptr))
        ELSE IF src = 3 THEN stack_push(m1, UsizeAsI32(m1.frame_ptr))
        ELSE m1

Run_PushReg(m) ==
    LET m1 == next_u8(m)
        src == m1.ret
    IN  IF m1.status # "running" THEN m1
        ELSE IF src = 0 THEN m1
        ELSE IF src = 1 THEN stack_push(m1, UsizeAsI32(m1.ptr))
        ELSE IF src = 2 THEN stack_push(m1, UsizeAsI32(m1.stack_ptr))
        ELSE IF src = 3 THEN stack_push(m1, UsizeAsI32(m1.frame_ptr))
        ELSE Panic(m1, "explicit panic")

Run_Load(m) ==
    LET m1 == next_i32(m)
        m2 == Stack_get(m1, I32AsUsize(m1.ret))
    IN  stack_push(m2, m2.ret)

Run_Store(m) ==
    LET m1 == next_i32(m)
        location == m1.ret
        m2 == stack_pop(m1)
    IN  Stack_set(m2, I32AsUsize(location), m2.ret)

Run_LoadRelative(m) ==
    LET m1 == next_i32(m)
        m2 == Checked(m1, I32Add(UsizeAsI32(m.frame_ptr), m1.ret))
        m3 == Stack_get(m2, I32AsUsize(m2.ret))
    IN  stack_push(m3, m3.ret)

Run_StoreRelative(m) ==
    LET m1 == next_i32(m)
        m2 == Checked(m1, I32Add(UsizeAsI32(m.frame_ptr), m1.ret))
        location == m2.ret
        m3 == stack_pop(m2)
    IN  Stack_set(m3, I32AsUsize(location), m3.ret)

Run_StackAdd(m) ==
    LET m1 == next_i32(m)
        m2 == Checked(m1, I32Add(UsizeAsI32(m1.stack_ptr), m1.ret))
    IN  IF m2.status # "running" THEN m2
        ELSE [m2 EXCEPT !.stack_ptr = I32AsUsize(m2.ret)]

\* the argument of the trailing debug(&format!(..)) is location - frame_ptr,
\* an i32 subtraction evaluated although debug prints nothing
Run_DerefAssignRelative(m) ==
    LET m1 == next_i32(m)
        m2 == Checked(m1, I32Add(UsizeAsI32(m.frame_ptr), m1.ret))
        m3 == Stack_get(m2, I32AsUsize(m2.ret))
        location == m3.ret
        m4 == stack_pop(m3)
        m5 == Stack_set(m4, I32AsUsize(location), m4.ret)
    IN  Checked(m5, [v |-> m5.ret,
                     o |-> I32Sub(location, UsizeAsI32(m5.frame_ptr)).o])

Run_DerefAssign(m) ==
    LET m1 == next_i32(m)
        m2 == Stack_get(m1, I32AsUsize(m1.ret))
        location == m2.ret
        m3 == stack_pop(m2)
    IN  Stack_set(m3, I32AsUsize(location), m3.ret)

Run_Deref(m) ==
    LET m1 == stack_pop(m)
        m2 == Stack_get(m1, I32AsUsize(m1.ret))
    IN  stack_push(m2, m2.ret)

Run_Cmp(m) ==
    LET m1 == stack_pop(m)
        lhs == m1.ret
        m2 == stack_pop(m1)
        rhs == m2.ret
        m3 == Checked(m2, I32Sub(lhs, rhs))
        diff == m3.ret
    IN  IF m3.status # "running" THEN m3
        ELSE IF diff < 0
             THEN [m3 EXCEPT !.flags.less_then = TRUE, !.flags.larger_then = FALSE,
                             !.flags.not_zero = TRUE, !.flags.equals = FALSE]
        ELSE IF diff > 0
             THEN [m3 EXCEPT !.flags.less_then = FALSE, !.flags.larger_then = TRUE,
                             !.flags.not_zero = TRUE, !.flags.equals = FALSE]
        ELSE [m3 EXCEPT !.flags.less_then = FALSE, !.flags.larger_then = FALSE,
                        !.flags.not_zero = FALSE, !.flags.equals = TRUE]

Run_Jmp(m) ==
    LET m1 == next_i32(m)
    IN  IF m1.status # "running" THEN m1
        ELSE [m1 EXCEPT !.ptr = I32AsUsize(m1.ret)]

\* the Jz arm with the branch taken on the equals flag for `val == 0`
Run_Jz_on_flags(m) ==
    LET m1 == next_i32(m)
        dst == m1.ret
        m2 == stack_pop(m1)
    IN  IF m2.status # "running" THEN m2
        ELSE IF m2.flags.equals THEN [m2 EXCEPT !.ptr = I32AsUsize(dst)]
        ELSE m2

Run_Jz(m) ==
    LET m1 == next_i32(m)
        dst == m1.ret
        m2 == stack_pop(m1)
        val == m2.ret
    IN  IF m2.status # "running" THEN m2
        ELSE IF val = 0 THEN [m2 EXCEPT !.ptr = I32AsUsize(dst)]
        ELSE m2

GreaterResult(m, a, b) == BoolAsI32(m, a > b)

GreaterEqualResult(m, a, b) == BoolAsI32(m, a >= b)

LesserResult(m, a, b) == BoolAsI32(m, a < b)

LesserEqualResult(m, a, b) == BoolAsI32(m, a <= b)

EqualResult(m, a, b) == BoolAsI32(m, a = b)

NotEqualResult(m, a, b) == BoolAsI32(m, a # b)

\* c = a OP b of the binary arm of ins
BinaryResult(ins, m, a, b) ==
    CASE ins = "I32Add" -> AddResult(m, a, b)
      [] ins = "I32Sub" -> SubResult(m, a, b)
      [] ins = "I32Mul" -> MulResult(m, a, b)
      [] ins = "I32Div" -> DivResult(m, a, b)
      [] ins = "Greater" -> GreaterResult(m, a, b)
      [] ins = "GreaterEqual" -> GreaterEqualResult(m, a, b)
      [] ins = "Lesser" -> LesserResult(m, a, b)
      [] ins = "LesserEqual" -> LesserEqualResult(m, a, b)
      [] ins = "Equal" -> EqualResult(m, a, b)
      [] ins = "NotEqual" -> NotEqualResult(m, a, b)

\* the binary arms: a = pop, b = pop, c = a OP b, push c
BinaryOp(m, ins) ==
    LET m1 == stack_pop(m)
        m2 == stack_pop(m1)
        m3 == BinaryResult(ins, m2, m1.ret, m2.ret)
    IN  stack_push(m3, m3.ret)

Run_I32Add(m) == BinaryOp(m, "I32Add")
Run_I32Sub(m) == BinaryOp(m, "I32Sub")
Run_I32Mul(m) == BinaryOp(m, "I32Mul")
Run_I32Div(m) == BinaryOp(m, "I32Div")
Run_Greater(m) == BinaryOp(m, "Greater")
Run_GreaterEqual(m) == BinaryOp(m, "GreaterEqual")
Run_Lesser(m) == BinaryOp(m, "Lesser")
Run_LesserEqual(m) == BinaryOp(m, "LesserEqual")
Run_Equal(m) == BinaryOp(m, "Equal")
Run_NotEqual(m) == BinaryOp(m, "NotEqual")

\* the fall-through arm as `_ => {}`
Run_Invalid_ignored(m) == m

\* the arm `ins => panic!("Invalid instruction ...")`
Run_Invalid(m) == Panic(m, "Invalid instruction with op code")

\* the match on the fetched instruction
Execute(m) ==
    CASE m.ins = "Nop" -> m
      [] m.ins = "Hlt" -> [m EXCEPT !.status = "halted"]
      [] m.ins = "Lea" -> Run_Lea(m)
      [] m.ins = "I32Add" -> Run_I32Add(m)
      [] m.ins = "I32Sub" -> Run_I32Sub(m)
      [] m.ins = "I32Mul" -> Run_I32Mul(m)
      [] m.ins = "I32Div" -> Run_I32Div(m)
      [] m.ins = "Push" -> Run_Push(m)
      [] m.ins = "Pop" -> Run_Pop(m)
      [] m.ins = "CompilerCall" -> Run_CompilerCall(m)
      [] m.ins = "Call" -> Run_Call(m)
      [] m.ins = "Ret" -> Run_Ret(m)
      [] m.ins = "PopReg" -> Run_PopReg(m)
      [] m.ins = "PushReg" -> Run_PushReg(m)
      [] m.ins = "Load" -> Run_Load(m)
      [] m.ins = "Store" -> Run_Store(m)
      [] m.ins = "LoadRelative" -> Run_LoadRelative(m)
      [] m.ins = "StoreRelative" -> Run_StoreRelative(m)
      [] m.ins = "StackAdd" -> Run_StackAdd(m)
      [] m.ins = "DerefAssignRelative" -> Run_DerefAssignRelative(m)
      [] m.ins = "DerefAssign" -> Run_DerefAssign(m)
      [] m.ins = "Deref" -> Run_Deref(m)
      [] m.ins = "Cmp" -> Run_Cmp(m)
      [] m.ins = "Jmp" -> Run_Jmp(m)
      [] m.ins = "Jz" -> Run_Jz(m)
      [] m.ins = "Greater" -> Run_Greater(m)
      [] m.ins = "GreaterEqual" -> Run_GreaterEqual(m)
      [] m.ins = "Lesser" -> Run_Lesser(m)
      [] m.ins = "LesserEqual" -> Run_LesserEqual(m)
      [] m.ins = "Equal" -> Run_Equal(m)
      [] m.ins = "NotEqual" -> Run_NotEqual(m)
      [] OTHER -> Run_Invalid(m)

\* one turn of the loop of Interpreter::run: fetch, then the match
run_step(m) == Execute(next_instruction(m))

-----------------------------------------------------------------------------
(* Building a buffer: the specification SpecEnc applies the append and      *)
(* patch operations of Instructions and of Interpreter to one buffer.       *)

\* the longest buffer built
MaxCode == 5

\* the most patches applied to one buffer
MaxPatches == 1

\* the values appended, and the values patched in
EncI32 == {I32Min, -1, 0, 10, 16909060, I32Max}
EncU32 == {CastU32(-2), CastU32(16909060)}
EncU16 == {258}
EncU8 == {255}
EncOpcodes == {"Push"}
PatchI32 == {I32Min, 84281096}
PatchU32 == {CastU32(84281096)}
PatchU16 == {1541}
PatchU8 == {9}

AppendKinds ==
    {"push_instruction", "push_u8_operand", "push_u16_operand", "push_u32_operand",
     "push_i32_operand", "Interpreter::push_i32_operand"}

PatchKinds ==
    {"set_u8_operand", "set_u16_operand", "set_u32_operand", "set_i32_operand",
     "Interpreter::set_i32_operand"}

\* the width in bytes of the field an operation writes
Width(kind) ==
    CASE kind \in {"push_instruction", "push_u8_operand", "set_u8_operand",
                   "Interpreter::push_u8_operand", "Interpreter::set_u8_operand"} -> 1
      [] kind \in {"push_u16_operand", "set_u16_operand",
                   "Interpreter::push_u16_operand", "Interpreter::set_u16_operand"} -> 2
      [] OTHER -> 4

\* the values an operation of this kind is given
Operands(kind) ==
    CASE kind = "push_instruction" -> EncOpcodes
      [] kind = "push_u8_operand" -> EncU8
      [] kind = "push_u16_operand" -> EncU16
      [] kind = "push_u32_operand" -> EncU32
      [] kind \in {"push_i32_operand", "Interpreter::push_i32_operand"} -> EncI32
      [] kind = "set_u8_operand" -> PatchU8
      [] kind = "set_u16_operand" -> PatchU16
      [] kind = "set_u32_operand" -> PatchU32
      [] kind \in {"set_i32_operand", "Interpreter::set_i32_operand"} -> PatchI32

\* the call of an append operation
ApplyAppend(kind, b, val) ==
    CASE kind = "push_instruction" -> push_instruction(b, U8FromInstruction(val))
      [] kind = "push_u8_operand" -> push_u8_operand(b, val)
      [] kind = "push_u16_operand" -> push_u16_operand(b, val)
      [] kind = "push_u32_operand" -> push_u32_operand(b, val)
      [] kind = "push_i32_operand" -> push_i32_operand(b, val)
      [] kind = "Interpreter::push_u8_operand" -> Interpreter_push_u8_operand(b, val)
      [] kind = "Interpreter::push_u16_operand" -> Interpreter_push_u16_operand(b, val)
      [] kind = "Interpreter::push_u32_operand" -> Interpreter_push_u32_operand(b, val)
      [] kind = "Interpreter::push_i32_operand" -> Interpreter_push_i32_operand(b, val)

\* the call of a patch operation
ApplyPatch(kind, b, val, index) ==
    CASE kind = "set_u8_operand" -> set_u8_operand(b, val, index)
      [] kind = "set_u16_operand" -> set_u16_operand(b, val, index)
      [] kind = "set_u32_operand" -> set_u32_operand(b, val, index)
      [] kind = "set_i32_operand" -> set_i32_operand(b, val, index)
      [] kind = "Interpreter::set_u8_operand" -> Interpreter_set_u8_operand(b, val, index)
      [] kind = "Interpreter::set_u16_operand" -> Interpreter_set_u16_operand(b, val, index)
      [] kind = "Interpreter::set_u32_operand" -> Interpreter_set_u32_operand(b, val, index)
      [] kind = "Interpreter::set_i32_operand" -> Interpreter_set_i32_operand(b, val, index)

NoOp == [kind |-> "none", val |-> 0, index |-> 0, before |-> << >>, patches |-> 0]

\* the interpreter and the bare stack, not running
Idle ==
    /\ instructions = << >>
    /\ stack = << >>
    /\ stack_ptr = Usize(0)
    /\ ptr = Usize(0)
    /\ frame_ptr = Usize(0)
    /\ flags = Flags_new
    /\ output = << >>
    /\ status = "idle"
    /\ panic = ""
    /\ overflow_checks = FALSE
    /\ frames = << >>
    /\ history = << >>

\* no buffer under construction
NoCode ==
    /\ code = << >>
    /\ code_panicked = FALSE
    /\ op = NoOp

\* no host
NoHost ==
    /\ instances = << >>
    /\ stdout = << >>

InitEnc == Idle /\ NoCode /\ NoHost

\* one append: an opcode or an operand at the end of the buffer
AppendOp ==
    /\ ~code_panicked
    /\ \E kind \in AppendKinds : \E val \in Operands(kind) :
          /\ Len(code) + Width(kind) <= MaxCode
          /\ LET b == ApplyAppend(kind, Buf(code), val)
             IN  /\ code' = b.instructions
                 /\ code_panicked' = b.panicked
                 /\ op' = [kind |-> kind, val |-> val, index |-> Len(code),
                           before |-> code, patches |-> op.patches]
    /\ UNCHANGED <<interpVars, overflow_checks, history, hostVars>>

\* one patch: a field overwritten at an index, in or out of the buffer
PatchOp ==
    /\ ~code_panicked
    /\ op.patches < MaxPatches
    /\ \E kind \in PatchKinds : \E val \in Operands(kind) : \E index \in 0..Len(code) :
          LET b == ApplyPatch(kind, Buf(code), val, index)
          IN  /\ code' = b.instructions
              /\ code_panicked' = b.panicked
              /\ op' = [kind |-> kind, val |-> val, index |-> index, before |-> code,
                        patches |-> op.patches + 1]
    /\ UNCHANGED <<interpVars, overflow_checks, history, hostVars>>

NextEnc == AppendOp \/ PatchOp

SpecEnc == InitEnc /\ [][NextEnc]_vars

-----------------------------------------------------------------------------
(* Programs: buffers written as raw bytes and assembled through the builder *)

Ins(name) == [ins |-> name, kind |-> "none", val |-> 0]
InsI32(name, v) == [ins |-> name, kind |-> "i32", val |-> v]
InsU8(name, v) == [ins |-> name, kind |-> "u8", val |-> v]
\* a byte that is no opcode of the enumeration
RawByte(v) == [ins |-> "Nop", kind |-> "raw", val |-> v]

\* the builder calls of tests::test_2, for any list of instructions
RECURSIVE AssembleInto(_, _)
AssembleInto(b, items) ==
    IF items = << >> THEN b
    ELSE LET it == Head(items)
             b1 == IF it.kind = "raw" THEN push_u8_operand(b, it.val)
                   ELSE push_instruction(b, U8FromInstruction(it.ins))
             b2 == IF it.kind = "i32" THEN push_i32_operand(b1, it.val)
                   ELSE IF it.kind = "u8" THEN push_u8_operand(b1, it.val)
                   ELSE b1
         IN  AssembleInto(b2, Tail(items))

Assemble(items) == AssembleInto(Buf(<< >>), items).instructions

\* tests::test_1: the program as raw bytes
Test1Bytes ==
    << U8FromInstruction("Push"), 10, 0, 0, 0,
       U8FromInstruction("Push"), 20, 0, 0, 0,
       U8FromInstruction("I32Add"),
       U8FromInstruction("CompilerCall"), 1, 0, 0, 0,
       U8FromInstruction("Hlt") >>

\* tests::test_2: the same program through the builder
Test2Program ==
    Assemble(<< InsI32("Push", 10), InsI32("Push", 20), Ins("I32Add"),
                InsI32("CompilerCall", 1), Ins("Hlt") >>)

-----------------------------------------------------------------------------
(* The state variables as a machine, and a machine as the next state *)

Machine ==
    [instructions |-> instructions, stack |-> stack, stack_ptr |-> stack_ptr,
     ptr |-> ptr, frame_ptr |-> frame_ptr, flags |-> flags, output |-> output,
     status |-> status, panic |-> panic, oc |-> overflow_checks,
     ret |-> 0, ins |-> "Nop"]

Becomes(r) ==
    /\ instructions' = r.instructions
    /\ stack' = r.stack
    /\ stack_ptr' = r.stack_ptr
    /\ ptr' = r.ptr
    /\ frame_ptr' = r.frame_ptr
    /\ flags' = r.flags
    /\ output' = r.output
    /\ status' = r.status
    /\ panic' = r.panic
    /\ overflow_checks' = r.oc

-----------------------------------------------------------------------------
(* A bare Stack: the specification SpecStack applies push and pop to a      *)
(* Stack::new(Cap) in any order.                                            *)

\* the capacity of the bare stack
Cap == 3
\* the most operations applied to it
MaxStackOps == (2 * Cap) + 2
\* the values pushed
StackVals == {7, -3}

InitStack ==
    /\ NoCode
    /\ NoHost
    /\ instructions = << >>
    /\ stack = Stack_new(Cap).stack
    /\ stack_ptr = Stack_new(Cap).ptr
    /\ ptr = Usize(0)
    /\ frame_ptr = Usize(0)
    /\ flags = Flags_new
    /\ output = << >>
    /\ status = "running"
    /\ panic = ""
    /\ overflow_checks \in BOOLEAN
    /\ frames = << >>
    /\ history = << >>

\* a call of Stack::push
PushOp ==
    /\ status = "running"
    /\ Len(history) < MaxStackOps
    /\ \E val \in StackVals :
          LET r == Stack_push(Machine, val)
          IN  /\ Becomes(r)
              /\ history' = Append(history, [op |-> "push", val |-> val,
                                             ok |-> r.status = "running"])
    /\ UNCHANGED <<frames, codeVars, hostVars>>

\* a call of Stack::pop
PopOp ==
    /\ status = "running"
    /\ Len(history) < MaxStackOps
    /\ LET r == Stack_pop(Machine)
       IN  /\ Becomes(r)
           /\ history' = Append(history, [op |-> "pop", val |-> r.ret,
                                          ok |-> r.status = "running"])
    /\ UNCHANGED <<frames, codeVars, hostVars>>

NextStack == PushOp \/ PopOp

SpecStack == InitStack /\ [][NextStack]_vars

-----------------------------------------------------------------------------
(* Running a program: the specification Spec constructs an Interpreter over *)
(* one of the buffers of Programs, in either build profile, and runs it one *)
(* turn of the loop at a time.                                              *)

\* the longest program over the core alphabet
MaxProgLen == 3
\* the deepest recursion of the recursive programs
MaxDepth == 5
\* the most values a run prints before the model stops following it
MaxOutput == 3

\* one instruction of every opcode, with the operands and selectors that
\* reach each of its branches
Alphabet ==
    {Ins(n) : n \in {"Nop", "Hlt", "I32Add", "I32Sub", "I32Mul", "I32Div", "Pop",
                     "Ret", "Deref", "Cmp", "Jnz", "Greater", "GreaterEqual",
                     "Lesser", "LesserEqual", "Equal", "NotEqual"}}
    \cup {RawByte(200)}
    \cup {InsI32("Push", v) : v \in {0, 1, -1, 1022, I32Min, I32Max}}
    \cup {InsI32("CompilerCall", v) : v \in {0, 1, 2, -1}}
    \cup {InsI32(n, v) : n \in {"Jmp", "Jz"}, v \in {3, 99}}
    \cup {InsI32("Call", 7)}
    \cup {InsI32(n, v) : n \in {"Load", "Store"}, v \in {1023, -1}}
    \cup {InsI32(n, 1) : n \in {"LoadRelative", "StoreRelative", "Lea", "StackAdd"}}
    \cup {InsI32("StackAdd", -1)}
    \cup {InsI32(n, 1023) : n \in {"DerefAssign", "DerefAssignRelative"}}
    \cup {InsU8(n, v) : n \in {"PushReg", "PopReg"}, v \in {0, 1, 2, 3, 4, 255}}

\* every program of one or two instructions of the alphabet
PairPrograms ==
    {Assemble(<< x >>) : x \in Alphabet}
    \cup {Assemble(<< x, y >>) : x \in Alphabet, y \in Alphabet}

\* the instructions of the longer programs
CoreAlphabet ==
    {Ins(n) : n \in {"Hlt", "Pop", "Ret", "Cmp"}}
    \cup {InsI32("Push", v) : v \in {0, 1}}
    \cup {InsI32("CompilerCall", 1), InsI32("Jz", 99), InsI32("Call", 99)}
    \cup {InsU8("PopReg", 1)}

\* every program of 1..MaxProgLen instructions of the core alphabet
ShortPrograms ==
    UNION {{Assemble(p) : p \in [1..n -> CoreAlphabet]} : n \in 1..MaxProgLen}

\* the operands of the two-operand programs
ArithVals == {I32Min, -1, 0, 3, 5, I32Max}
BinaryOps ==
    {"I32Add", "I32Sub", "I32Mul", "I32Div", "Cmp", "Greater", "GreaterEqual",
     "Lesser", "LesserEqual", "Equal", "NotEqual"}

\* Push b, Push a, OP: OP pops a first
BinaryPrograms ==
    {Assemble(<< InsI32("Push", b), InsI32("Push", a), Ins(o) >>) :
        a \in ArithVals, b \in ArithVals, o \in BinaryOps}

\* Push v, then a Cmp of a with 5 that sets the flags, then Jz t over a Push 7
JzPrograms ==
    {Assemble(<< InsI32("Push", v), InsI32("Push", 5), InsI32("Push", a),
                 Ins("Cmp"), InsI32("Jz", t), InsI32("Push", 7), Ins("Hlt") >>) :
        v \in {0, 1, -1, I32Min}, a \in {3, 5, 7}, t \in {26, 23, 1000}}

\* a subroutine that calls itself n times, counting its argument (the local
\* at frame_ptr + 3) down to 0, and prints the argument it ended with
RecProgram(n) ==
    Assemble(<< InsI32("Push", n),          \*  0
                InsI32("Call", 11),         \*  5
                Ins("Hlt"),                 \* 10
                InsI32("LoadRelative", 3),  \* 11
                InsI32("Jz", 38),           \* 16
                InsI32("Push", 1),          \* 21
                InsI32("LoadRelative", 3),  \* 26
                Ins("I32Sub"),              \* 31
                InsI32("Call", 11),         \* 32
                Ins("Pop"),                 \* 37
                Ins("Ret") >>)              \* 38

RecPrograms == {RecProgram(n) : n \in 0..MaxDepth}

\* programs that use the stack up to its last cell
StackLimitPrograms ==
    { Assemble(<< InsI32("Push", 1), InsI32("Jmp", 0) >>),
      Assemble(<< InsI32("Call", 0) >>),
      Assemble(<< InsI32("StackAdd", -1022),  \*  0
                  InsI32("Call", 11),         \*  5
                  Ins("Hlt"),                 \* 10
                  InsI32("StackAdd", 2),      \* 11
                  InsI32("Call", 22),         \* 16
                  Ins("Hlt"),                 \* 21
                  Ins("Ret") >>) }            \* 22

Programs ==
    {Test1Bytes, Test2Program}
    \cup PairPrograms \cup ShortPrograms \cup BinaryPrograms \cup JzPrograms
    \cup RecPrograms
    \cup StackLimitPrograms

Init ==
    /\ NoCode
    /\ NoHost
    /\ history = << >>
    /\ frames = << >>
    /\ \E bytes \in Programs : \E oc \in BOOLEAN :
          LET m == Interpreter_new(bytes, oc)
          IN  /\ instructions = m.instructions
              /\ stack = m.stack
              /\ stack_ptr = m.stack_ptr
              /\ ptr = m.ptr
              /\ frame_ptr = m.frame_ptr
              /\ flags = m.flags
              /\ output = m.output
              /\ status = m.status
              /\ panic = m.panic
              /\ overflow_checks = m.oc

\* the instruction the next turn of the loop fetches
Fetched == next_instruction(Machine).ins

\* the calls in progress after a turn that fetched ins and ended in r: a Call
\* that completed adds its record, a Ret that completed removes the last
FramesAfter(ins, r) ==
    IF r.status # "running" THEN frames
    ELSE IF ins = "Call"
         THEN Append(frames,
                     [ret |-> UsizeInc(UsizeInc(UsizeInc(UsizeInc(UsizeInc(ptr))))),
                      frame_ptr |-> frame_ptr,
                      stack_ptr |-> stack_ptr,
                      stack_ptr_after |-> r.stack_ptr,
                      header |-> << r.stack[stack_ptr.lo + 1], r.stack[stack_ptr.lo] >>])
    ELSE IF ins = "Ret" /\ frames # << >>
         THEN SubSeq(frames, 1, Len(frames) - 1)
    ELSE frames

\* the record of the next_instruction call of this turn: the offset it is
\* made at and whether it read a byte; only the first length + 2 are kept
FetchesAfter ==
    IF Len(history) < Len(instructions) + 2
    THEN Append(history, [op |-> "fetch", val |-> ptr.lo,
                          ok |-> UsizeLt(ptr, Len(instructions))])
    ELSE history

\* one turn of the loop of Interpreter::run
Step ==
    /\ status = "running"
    /\ Len(output) < MaxOutput
    /\ LET r == run_step(Machine)
       IN  /\ Becomes(r)
           /\ frames' = FramesAfter(Fetched, r)
    /\ history' = FetchesAfter
    /\ UNCHANGED <<codeVars, hostVars>>

Next == Step

Spec == Init /\ [][Next]_vars

-----------------------------------------------------------------------------
(* A host with two Interpreters, each built by Interpreter::new from its    *)
(* own buffer and run on its own thread: the specification SpecTwo takes    *)
(* the turns of the two run loops in any order. Everything run touches is   *)
(* reached through &mut self; println! writes whole lines to the one        *)
(* standard output of the process.                                          *)

InstanceIds == {1, 2}

\* the buffers the host gives its Interpreters
HostPrograms ==
    {Test1Bytes,
     Assemble(<< InsI32("Push", 5), InsI32("Push", 3), Ins("Cmp"), Ins("Hlt") >>),
     Assemble(<< InsI32("Push", 2), InsI32("CompilerCall", 1),
                 InsI32("CompilerCall", 1) >>),
     Assemble(<< Ins("Pop") >>),
     Assemble(<< InsI32("Call", 6), Ins("Hlt"), Ins("Ret") >>),
     Assemble(<< InsI32("Push", I32Max), InsI32("Push", 1), Ins("I32Add") >>)}

InitTwo ==
    /\ Idle
    /\ NoCode
    /\ stdout = << >>
    /\ \E oc \in BOOLEAN : \E p \in [InstanceIds -> HostPrograms] :
          instances = [i \in InstanceIds |->
                          [m |-> Interpreter_new(p[i], oc), turns |-> 0]]

\* the lines a turn from machine m to machine r prints, as instance i
Printed(i, m, r) ==
    [k \in 1..(Len(r.output) - Len(m.output)) |->
        [who |-> i, val |-> r.output[Len(m.output) + k]]]

\* a StepInstance that also stores the flags it computed in every instance,
\* as a Flag Register kept in a static would
StepInstance_static_flags(ms, i) ==
    LET r == run_step(ms[i].m)
    IN  [j \in DOMAIN ms |->
            IF j = i THEN [m |-> r, turns |-> ms[i].turns + 1]
            ELSE [ms[j] EXCEPT !.m.flags = r.flags]]

\* one turn of the loop of instance i: run(&mut self) on that Interpreter
StepInstance(ms, i) ==
    [ms EXCEPT ![i] = [m |-> run_step(ms[i].m), turns |-> ms[i].turns + 1]]

InstanceStep ==
    /\ \E i \in InstanceIds :
          /\ instances[i].m.status = "running"
          /\ instances' = StepInstance(instances, i)
          /\ stdout' = stdout \o Printed(i, instances[i].m, instances'[i].m)
    /\ UNCHANGED <<interpVars, overflow_checks, history, codeVars>>

NextTwo == InstanceStep

SpecTwo == InitTwo /\ [][NextTwo]_vars

-----------------------------------------------------------------------------
(* Display for Instructions next to a run: the specification SpecDis        *)
(* disassembles a buffer one line at a time while an Interpreter built over *)
(* the same bytes runs it one turn at a time.                               *)

\* the opcodes of the first arm of the match in Display::fmt
DisplayWithImmediate ==
    {"StackAdd", "PushReg", "Call", "Push", "CompilerCall", "StoreRelative",
     "LoadRelative", "DerefAssign", "DerefAssignRelative", "Lea", "PopReg",
     "Store", "Load", "Jmp", "Jz", "Jnz"}

\* one turn of the while loop of Display::fmt over bytes, from d = [index,
\* lines]: the offset and the mnemonic are written first, then get_i32 reads
\* the four bytes after the opcode, which panics if one of them is missing
Display_line(bytes, d) ==
    LET ins == InstructionFromU8(get_u8(bytes, d.index))
        begun == [index |-> d.index, ins |-> ins, val |-> 0, whole |-> FALSE]
    IN  IF ins \in DisplayWithImmediate
        THEN IF d.index + 4 < Len(bytes)
             THEN [index |-> d.index + 4 + 1,
                   lines |-> Append(d.lines, [begun EXCEPT !.val = get_i32(bytes, d.index + 1),
                                                           !.whole = TRUE]),
                   panicked |-> FALSE]
             ELSE [index |-> d.index,
                   lines |-> Append(d.lines, begun),
                   panicked |-> TRUE]
        ELSE [index |-> d.index + 1,
              lines |-> Append(d.lines, [begun EXCEPT !.whole = TRUE]),
              panicked |-> FALSE]

\* the longest buffer displayed, in instructions
MaxDisLen == 2

\* instructions that are no control transfer and that the run loop implements
DisAlphabet ==
    {Ins(n) : n \in {"Nop", "Hlt", "I32Add", "Pop", "Cmp"}}
    \cup {InsI32("Push", v) : v \in {1, 1022}}
    \cup {InsI32(n, 0) : n \in {"CompilerCall", "StackAdd", "Lea"}}
    \cup {InsU8("PushReg", v) : v \in {0, 2}}
    \cup {InsU8("PopReg", v) : v \in {0, 3}}

\* every buffer of 1..MaxDisLen whole instructions of that alphabet
DisPrograms ==
    UNION {{Assemble(p) : p \in [1..n -> DisAlphabet]} : n \in 1..MaxDisLen}

InitDis ==
    /\ NoHost
    /\ history = << >>
    /\ frames = << >>
    /\ code_panicked = FALSE
    /\ op = [index |-> 0, lines |-> << >>]
    /\ \E bytes \in DisPrograms : \E oc \in BOOLEAN :
          LET m == Interpreter_new(bytes, oc)
          IN  /\ code = bytes
              /\ instructions = m.instructions
              /\ stack = m.stack
              /\ stack_ptr = m.stack_ptr
              /\ ptr = m.ptr
              /\ frame_ptr = m.frame_ptr
              /\ flags = m.flags
              /\ output = m.output
              /\ status = m.status
              /\ panic = m.panic
              /\ overflow_checks = m.oc

\* one turn of the while loop of Display::fmt
DisplayLine ==
    /\ ~code_panicked
    /\ op.index < Len(code)
    /\ LET d == Display_line(code, op)
       IN  /\ op' = [index |-> d.index, lines |-> d.lines]
           /\ code_panicked' = d.panicked
    /\ UNCHANGED <<interpVars, overflow_checks, history, code, hostVars>>

NextDis == DisplayLine \/ Step

SpecDis == InitDis /\ [][NextDis]_vars

-----------------------------------------------------------------------------
(* Claims about the encoding, checked under SpecEnc *)

\* byte k (0 = lowest) of the 32-bit two's complement pattern of v
ByteOfI32(v, k) == (v \div (U8Mod ^ k)) % U8Mod

\* the i32 an append or patch of a 32-bit field was given
OpI32 ==
    IF op.kind \in {"push_u32_operand", "set_u32_operand"} THEN CastI32(op.val)
    ELSE op.val

\* C1: appending v with push_i32_operand and decoding with get_i32 at the
\* offset of the appended field returns v, for every v (minimum, maximum, -1
\* and 0 among them); and decoding is injective: the four bytes at any offset
\* are the encoding of the value decoded from them.
C1_RoundTrip ==
    /\ (op.kind \in {"push_i32_operand", "Interpreter::push_i32_operand"}
        /\ ~code_panicked)
          => /\ Readable(code, op.index, 4)
             /\ get_i32(code, op.index) = op.val
             /\ CastI32(Interpreter_get_u32(code, op.index)) = op.val
    /\ \A i \in 0..Len(code) :
          Readable(code, i, 4)
             => push_i32_operand(Buf(<< >>), get_i32(code, i)).instructions
                   = SubSeq(code, i + 1, i + 4)

\* C1 witness: the minimum was appended and decoded
C1_Witness ==
    /\ op.kind = "push_i32_operand"
    /\ op.val = I32Min
    /\ op.index = 1
    /\ get_i32(code, 1) = I32Min

\* C2: appending a 32-bit operand grows the buffer by exactly 4 bytes, byte k
\* of the field being bits 8k..8k+7 of the value's bit pattern (lowest first),
\* and leaves the bytes before it alone; so Push 10 through the builder is
\* [6, 10, 0, 0, 0] and the builder's program of test_2 is the raw bytes of
\* test_1.
C2_LittleEndianAppend ==
    /\ (op.kind \in {"push_i32_operand", "push_u32_operand",
                     "Interpreter::push_i32_operand"} /\ ~code_panicked)
          => /\ Len(code) = Len(op.before) + 4
             /\ SubSeq(code, 1, Len(op.before)) = op.before
             /\ \A k \in 0..3 : code[op.index + k + 1] = ByteOfI32(OpI32, k)
    /\ (op.kind = "push_i32_operand" /\ op.val = 10
        /\ op.before = << U8FromInstruction("Push") >>)
          => code = << 6, 10, 0, 0, 0 >>
    /\ Test2Program = Test1Bytes

\* C2 witness: Push 10 was assembled
C2_Witness ==
    /\ op.kind = "push_i32_operand"
    /\ op.val = 10
    /\ code = << 6, 10, 0, 0, 0 >>

\* C3: a patch whose field lies inside the buffer (offset + width <= length)
\* does not panic, keeps the length and keeps every byte outside
\* [offset, offset + width), for the widths 1, 2 and 4.
C3_PatchFrame ==
    (op.kind \in PatchKinds /\ op.index + Width(op.kind) <= Len(op.before))
       => /\ ~code_panicked
          /\ Len(code) = Len(op.before)
          /\ \A i \in 1..Len(code) :
                (i <= op.index \/ i > op.index + Width(op.kind))
                   => code[i] = op.before[i]

\* C3 witness: a 2-byte patch in the middle of a 5-byte buffer changed it
C3_Witness ==
    /\ op.kind = "set_u16_operand"
    /\ op.index = 1
    /\ Len(op.before) = 5
    /\ code # op.before
    /\ ~code_panicked

-----------------------------------------------------------------------------
(* Claims about the bare stack, checked under SpecStack *)

NPush == Cardinality({i \in 1..Len(history) : history[i].op = "push"})
NPop == Cardinality({i \in 1..Len(history) : history[i].op = "pop"})
\* only pushes so far
OnlyPushes == NPop = 0
\* pushes first, then pops
PushesThenPops ==
    \A i, j \in 1..Len(history) :
        (i < j /\ history[i].op = "pop") => history[j].op = "pop"

\* C4: k <= Cap values pushed onto the empty stack and then popped come back
\* in reverse order (the j-th pop returns the j-th last value pushed), every
\* one of these calls returns, and after the k-th pop the top index is Cap-1.
C4_LifoInverse ==
    (PushesThenPops /\ NPush <= Cap /\ NPop <= NPush)
       => /\ status = "running"
          /\ \A j \in 1..NPop : history[NPush + j].val = history[NPush + 1 - j].val
          /\ (NPop = NPush => stack_ptr = Usize(Cap - 1))

\* C7: from the empty stack each of the first Cap pushes is accepted (the
\* value is in its cell and the run continues) and push number Cap+1 panics
\* with the stack-limit message and stores nothing.
C7_OverflowAfterCap ==
    OnlyPushes
       => /\ \A i \in 1..Len(history) : i <= Cap => stack[(Cap - i) + 1] = history[i].val
          /\ (Len(history) <= Cap => status = "running")
          /\ (Len(history) = Cap + 1
                => status = "panicked" /\ panic = "Tried to push beyond stack limit!")

\* this step is a call of Stack::pop on an empty stack: the stack-top index
\* is at its initial value, the capacity minus one
PopOfEmpty ==
    /\ Len(history') = Len(history) + 1
    /\ history'[Len(history')].op = "pop"
    /\ stack_ptr = Usize(Len(stack) - 1)

\* C19 as stated: a pop of an empty (fresh) stack of capacity N advances the
\* stack-top index past its initial value N-1 and returns a value instead of
\* raising a fatal condition, so execution continues.
C19_PopOfEmptyContinues ==
    [][ PopOfEmpty
        => /\ stack_ptr' = Usize(Len(stack))
           /\ status' = "running" ]_vars

\* C19, amended: pop has no guard of its own against underflow, but the read
\* of the cell is bounds-checked: a pop of an empty (fresh) stack of capacity
\* N advances the stack-top index to N and then aborts with an index out of
\* bounds, in every build, changing no cell and returning no value.
C19_PopOfEmptyAborts ==
    [][ PopOfEmpty
        => /\ stack_ptr' = Usize(Len(stack))
           /\ status' = "panicked"
           /\ panic' = "index out of bounds"
           /\ ~history'[Len(history')].ok
           /\ stack' = stack ]_vars

\* the first call on a fresh stack was a pop, and it has aborted
C19_Witness ==
    /\ Len(history) = 1
    /\ history[1].op = "pop"
    /\ stack_ptr = Usize(Cap)
    /\ status = "panicked"

-----------------------------------------------------------------------------
(* Claims about the run loop, checked under Spec *)

\* the machine after the fetch of this turn, and after the i32 operand
AfterFetch == next_instruction(Machine)
AfterOperand == next_i32(AfterFetch)
\* the value a pop would return now
Top == stack_pop(Machine).ret
\* the offset after the opcode byte at ptr and n operand bytes
PtrPlus(n) == Usize(ptr.lo + 1 + n)

\* the call in progress that a Ret now would end
Frame == frames[Len(frames)]

\* the header cells of that call are as the Call left them
HeaderIntact ==
    /\ Frame.stack_ptr.hi = 0
    /\ Frame.stack_ptr.lo >= 1
    /\ Frame.stack_ptr.lo < Len(stack)
    /\ << stack[Frame.stack_ptr.lo + 1], stack[Frame.stack_ptr.lo] >> = Frame.header

\* C5: frame balance at every depth. A Call for which the stack still has two
\* free cells is carried out; and a Ret executed with the stack-top index at
\* its value right after the matching Call and that Call's two header cells
\* unmodified sets the instruction pointer to the byte after the Call's
\* operand and restores the frame pointer and the stack-top index to their
\* values just before the Call, whatever the number of calls in progress.
C5_FrameBalance ==
    [][ /\ (/\ status = "running"
            /\ Fetched = "Call"
            /\ AfterOperand.status = "running"
            /\ stack_ptr.hi = 0 /\ stack_ptr.lo >= 1 /\ stack_ptr.lo < Len(stack))
           => status' = "running"
        /\ (/\ status = "running"
            /\ Fetched = "Ret"
            /\ frames # << >>
            /\ stack_ptr = Frame.stack_ptr_after
            /\ HeaderIntact)
           => /\ status' = "running"
              /\ ptr' = Frame.ret
              /\ frame_ptr' = Frame.frame_ptr
              /\ stack_ptr' = Frame.stack_ptr ]_vars

\* C6: a CompilerCall with selector 1 that completes appends to the output the
\* value a pop would return, and changes neither the stack-top index nor any
\* cell; the program of test_1 ends halted, and whenever it has stopped its
\* output is exactly the one value 30.
C6_EmitsTopWithoutPopping ==
    /\ [][ (/\ status = "running"
            /\ Fetched = "CompilerCall"
            /\ AfterOperand.status = "running"
            /\ AfterOperand.ret = 1
            /\ status' = "running")
           => /\ output' = Append(output, Top)
              /\ stack_ptr' = stack_ptr
              /\ stack' = stack ]_vars
    /\ [](instructions = Test1Bytes
             => /\ status # "panicked"
                /\ output \in {<< >>, << 30 >>}
                /\ (status = "halted" => output = << 30 >>))

C6_Witness ==
    /\ instructions = Test1Bytes
    /\ status = "halted"
    /\ output = << 30 >>
    /\ stack_ptr = Usize(StackSize - 2)
    /\ stack[StackSize] = 30

\* C8: Cmp on a stack holding lhs on top of rhs completes, pops both and
\* pushes nothing (the stack-top index rises by exactly 2, no cell changes),
\* and sets the four flags from lhs - rhs: less_then iff the difference is
\* negative (lhs < rhs), larger_then iff it is positive (lhs > rhs), equals
\* iff it is zero, not_zero the complement of equals; so exactly one of
\* less_then, larger_then, equals is true after it.
C8_CmpSetsFlags ==
    [][ (/\ status = "running"
         /\ Fetched = "Cmp"
         /\ stack_ptr.hi = 0 /\ stack_ptr.lo >= 0 /\ stack_ptr.lo + 2 < Len(stack))
        => LET lhs == stack[stack_ptr.lo + 2]
               rhs == stack[stack_ptr.lo + 3]
           IN  /\ status' = "running"
               /\ stack_ptr' = Usize(stack_ptr.lo + 2)
               /\ stack' = stack
               /\ flags'.less_then = (lhs < rhs)
               /\ flags'.larger_then = (lhs > rhs)
               /\ flags'.equals = (lhs = rhs)
               /\ flags'.not_zero = ~flags'.equals
               /\ Cardinality({f \in {"less_then", "larger_then", "equals"} :
                                  flags'[f]}) = 1 ]_vars

\* every Flag Register
FlagStates == [DOMAIN Flags_new -> BOOLEAN]

\* C9: a Jz that completes pops exactly one value (the stack-top index rises
\* by 1, no cell changes), sets the instruction pointer to its 32-bit target
\* iff the popped value is 0 and otherwise to the byte after its operand, and
\* leaves the Flag Register unchanged; from the same state with any other Flag
\* Register the same turn gives the same instruction pointer and stack.
C9_JzOnPoppedValue ==
    [][ (/\ status = "running"
         /\ Fetched = "Jz"
         /\ status' = "running")
        => /\ stack_ptr' = UsizeInc(stack_ptr)
           /\ stack' = stack
           /\ ptr' = IF Top = 0
                     THEN I32AsUsize(get_i32(instructions, ptr.lo + 1))
                     ELSE PtrPlus(4)
           /\ flags' = flags
           /\ \A f \in FlagStates :
                 LET r == run_step([Machine EXCEPT !.flags = f])
                 IN  /\ r.status = "running"
                     /\ r.ptr = ptr'
                     /\ r.stack = stack'
                     /\ r.stack_ptr = stack_ptr'
                     /\ r.flags = f ]_vars

\* a Jz has just branched to offset 26 on a popped 0 while the flags of the
\* Cmp before it say "less, not zero"
C9_Witness ==
    /\ instructions \in JzPrograms
    /\ status = "running"
    /\ ptr = Usize(26)
    /\ stack_ptr = Usize(StackSize - 1)
    /\ flags.less_then /\ flags.not_zero /\ ~flags.equals

\* the operand bytes the arm of an opcode reads: next_i32, next_u8 or none
OperandWidth(ins) ==
    IF ins \in {"Lea", "Push", "CompilerCall", "Call", "Load", "Store",
                "LoadRelative", "StoreRelative", "StackAdd", "DerefAssign",
                "DerefAssignRelative", "Jmp", "Jz"}
    THEN 4
    ELSE IF ins \in {"PushReg", "PopReg"} THEN 1
    ELSE 0

\* the offsets of the opcode bytes met when the buffer is read from offset i
\* on, one instruction after the other
RECURSIVE OpcodeOffsetsFrom(_, _)
OpcodeOffsetsFrom(bytes, i) ==
    IF i >= Len(bytes) THEN {}
    ELSE {i} \cup OpcodeOffsetsFrom(bytes,
                      i + 1 + OperandWidth(InstructionFromU8(get_u8(bytes, i))))

\* where the instruction pointer may stand: an opcode byte or the length
Boundaries == OpcodeOffsetsFrom(instructions, 0) \cup {Len(instructions)}

\* C10 as stated: between instructions the instruction pointer is the offset
\* of an opcode byte or the buffer length, never beyond the length and never
\* inside an operand field.
C10_IpAtOpcodeOrEnd ==
    status # "panicked" => (ptr.hi = 0 /\ ptr.lo \in Boundaries)

\* this turn stores a target in the instruction pointer
Transfers ==
    \/ Fetched \in {"Jmp", "Call", "Ret"}
    \/ Fetched = "Jz" /\ Top = 0
    \/ Fetched = "PopReg" /\ next_u8(AfterFetch).ret = 1

\* the target this turn stores
Target ==
    IF Fetched \in {"Jmp", "Call", "Jz"} THEN AfterOperand.ret
    ELSE IF Fetched = "PopReg" THEN Top
    ELSE stack_pop(stack_pop(Machine)).ret

\* C10 amended: an instruction fetched from the buffer that completes and is
\* not a transfer leaves the instruction pointer right after its opcode byte
\* and operand field, at most at the buffer length, so from the offset of an
\* opcode byte at the offset of the next one or at the length; a transfer
\* that completes leaves it at its target taken as u32, whatever that is.
C10_SequentialAdvance ==
    [][ (/\ status = "running"
         /\ UsizeLt(ptr, Len(instructions))
         /\ status' # "panicked")
        => IF Transfers
           THEN ptr' = I32AsUsize(Target)
           ELSE /\ ptr' = PtrPlus(OperandWidth(Fetched))
                /\ ptr'.lo <= Len(instructions)
                /\ (ptr.lo \in Boundaries => ptr'.lo \in Boundaries) ]_vars

\* a run of seven instructions one after the other, over a Jz not taken, has
\* ended at the buffer length
C10_Witness ==
    /\ instructions \in JzPrograms
    /\ status = "halted"
    /\ ptr = Usize(Len(instructions))
    /\ stack[StackSize] = 7

-----------------------------------------------------------------------------
(* Claims about how a run ends, checked under Spec *)

\* the opcodes whose arm pushes, pops, reads an operand, addresses a cell
Pushing ==
    (BinaryOps \ {"Cmp"})
    \cup {"Lea", "Push", "Call", "PushReg", "Load", "LoadRelative", "Deref"}
Popping ==
    BinaryOps
    \cup {"Pop", "Ret", "PopReg", "Store", "StoreRelative", "DerefAssign",
          "DerefAssignRelative", "Deref", "Jz"}
WithOperand ==
    {ins \in {InstructionNames[i] : i \in 1..Len(InstructionNames)} :
        OperandWidth(ins) > 0}
Addressing ==
    {"Load", "Store", "LoadRelative", "StoreRelative", "Deref", "DerefAssign",
     "DerefAssignRelative", "CompilerCall"}
\* the opcodes whose arm computes on i32 with +, - or *
Computing ==
    {"I32Add", "I32Sub", "I32Mul", "Cmp", "Lea", "LoadRelative", "StoreRelative",
     "StackAdd", "DerefAssignRelative"}

\* the diagnostics of the two stated categories of fatal abort
AuthoringErrors ==
    {"Compiler call failed function with index does not exist",
     "explicit panic", "Invalid instruction with op code"}
StackOverflows == {"Tried to push beyond stack limit!"}

\* C11 as stated: a run that has ended has halted or has aborted, and every
\* abort is an authoring/decode error or an operand-stack overflow on push.
C11_TwoAbortCategories ==
    /\ status \in {"running", "halted", "panicked"}
    /\ status = "panicked" => panic \in AuthoringErrors \cup StackOverflows

\* C11 amended: a turn of the loop ends the run only by a clean halt on Hlt or
\* by an abort, and every abort is one of: an unsupported CompilerCall
\* selector, an unsupported PushReg/PopReg selector, the unimplemented opcode
\* Jnz, a push beyond the stack limit, a division by zero or of i32::MIN by
\* -1 in I32Div, an index out of bounds (operand fetch past the buffer, pop or
\* addressed access outside the stack), or, only in a build with overflow
\* checks, an arithmetic overflow (of an i32 operation or of the top index in
\* push or pop).
C11_AbortCauses ==
    [][ status = "running"
        => \/ status' = "running"
           \/ status' = "halted" /\ Fetched = "Hlt"
           \/ /\ status' = "panicked"
              /\ \/ /\ panic' = "Compiler call failed function with index does not exist"
                    /\ Fetched = "CompilerCall"
                    /\ AfterOperand.ret \notin {0, 1}
                 \/ /\ panic' = "explicit panic"
                    /\ Fetched \in {"PushReg", "PopReg"}
                    /\ next_u8(AfterFetch).ret \notin 0..3
                 \/ panic' = "Invalid instruction with op code" /\ Fetched = "Jnz"
                 \/ panic' = "Tried to push beyond stack limit!" /\ Fetched \in Pushing
                 \/ /\ panic' \in {"attempt to divide by zero",
                                   "attempt to divide with overflow"}
                    /\ Fetched = "I32Div"
                 \/ /\ panic' = "index out of bounds"
                    /\ Fetched \in WithOperand \cup Popping \cup Addressing
                 \/ /\ panic' = "attempt to subtract with overflow"
                    /\ Fetched \in Pushing
                    /\ overflow_checks
                 \/ /\ panic' = "attempt to add with overflow"
                    /\ Fetched \in Popping \cup {"CompilerCall"}
                    /\ overflow_checks
                 \/ /\ panic' = "arithmetic overflow"
                    /\ Fetched \in Computing
                    /\ overflow_checks ]_vars

\* an I32Div has aborted the run on a zero divisor
C11_Witness ==
    /\ status = "panicked"
    /\ panic = "attempt to divide by zero"
    /\ instructions \in BinaryPrograms

\* the selector byte this turn reads, and the machine after reading it
AfterSelector == next_u8(AfterFetch)

\* C12: a CompilerCall whose 32-bit selector is neither 0 nor 1, and a PushReg
\* or PopReg whose selector byte is not 0, 1, 2 or 3, abort the run; no turn
\* is taken after an abort, so the following instruction is never executed.
C12_BadSelectorAborts ==
    [][ /\ status # "panicked"
        /\ (/\ status = "running"
            /\ Fetched = "CompilerCall"
            /\ AfterOperand.status = "running"
            /\ AfterOperand.ret \notin {0, 1})
           => /\ status' = "panicked"
              /\ panic' = "Compiler call failed function with index does not exist"
        /\ (/\ status = "running"
            /\ Fetched \in {"PushReg", "PopReg"}
            /\ AfterSelector.status = "running"
            /\ AfterSelector.ret \notin 0..3)
           => /\ status' = "panicked"
              /\ Fetched = "PushReg" => panic' = "explicit panic" ]_vars

\* PushReg 4 has aborted the run
C12_Witness ==
    /\ instructions = Assemble(<< InsU8("PushReg", 4) >>)
    /\ status = "panicked"
    /\ panic = "explicit panic"

\* the flag fields no instruction writes
ReservedFlags == {"overflow", "underflow", "halted", "carry", "div_by_zero"}

\* C14: every turn that fetches anything but Cmp leaves all nine flags as
\* they were, a turn that fetches Cmp leaves overflow, underflow, halted,
\* carry and div_by_zero as they were, and these five are false in every
\* state, also after Hlt and after an I32Div that divided by zero.
C14_FlagsOnlyByCmp ==
    /\ [][ /\ Fetched # "Cmp" => flags' = flags
           /\ \A f \in ReservedFlags : flags'[f] = flags[f] ]_vars
    /\ [](\A f \in ReservedFlags : ~flags[f])

\* a run has halted on Hlt, three instructions after a Cmp of 5 with 5 set
\* equals
C14_Witness ==
    /\ instructions \in JzPrograms
    /\ status = "halted"
    /\ flags = [Flags_new EXCEPT !.equals = TRUE]

\* the byte the instruction pointer is at
ByteAtPtr == get_u8(instructions, ptr.lo)

\* C15: every byte value outside 0..31 decodes to Nop, and a turn that fetches
\* such a byte only advances the instruction pointer by one: the run goes on,
\* and stack, stack-top index, frame pointer, flags and output are unchanged.
C15_UnknownByteIsNop ==
    /\ [][ (/\ status = "running"
            /\ UsizeLt(ptr, Len(instructions))
            /\ ByteAtPtr >= Len(InstructionNames))
           => /\ status' = "running"
              /\ ptr' = PtrPlus(0)
              /\ <<stack, stack_ptr, frame_ptr, flags, output>>'
                    = <<stack, stack_ptr, frame_ptr, flags, output>> ]_vars
    /\ [](\A b \in Len(InstructionNames)..(U8Mod - 1) : InstructionFromU8(b) = "Nop")

\* the byte 200 has been executed and the Push after it has pushed
C15_Witness ==
    /\ instructions = Assemble(<< RawByte(200), InsI32("Push", 1) >>)
    /\ status = "running"
    /\ ptr = Usize(6)
    /\ stack_ptr = Usize(StackSize - 2)

\* a machine on which the arm of every implemented opcode completes: the
\* opcode with a zero operand, on a stack holding 1, 1, 1
Favourable(ins, oc) ==
    LET m0 == Interpreter_new(<< U8FromInstruction(ins), 0, 0, 0, 0 >>, oc)
    IN  stack_push(stack_push(stack_push(m0, 1), 1), 1)

\* C16: a turn that fetches Jnz (byte 25) aborts the run with the
\* invalid-instruction panic, whatever the state; and Jnz is the only one of
\* the 32 opcodes that always aborts: in place of that Jnz, each of the
\* others completes when run with a zero operand on a stack holding three
\* values, and Jnz aborts there too.
C16_OnlyJnzAlwaysAborts ==
    [][ (status = "running" /\ Fetched = "Jnz")
        => /\ ByteAtPtr = 25
           /\ status' = "panicked"
           /\ panic' = "Invalid instruction with op code"
           /\ \A b \in 0..(Len(InstructionNames) - 1) :
                 (run_step(Favourable(InstructionFromU8(b), overflow_checks)).status
                     = "panicked")
                    <=> (b = 25) ]_vars

\* Jnz after a Push has aborted the run
C16_Witness ==
    /\ instructions = Assemble(<< InsI32("Push", 0), Ins("Jnz") >>)
    /\ status = "panicked"
    /\ panic = "Invalid instruction with op code"
    /\ ptr = Usize(6)

\* C17: a PushReg or PopReg whose selector byte is 0 is a no-op: the run goes
\* on with the instruction pointer after the selector byte, and stack cells,
\* stack-top index, frame pointer and flags are unchanged.
C17_SelectorZeroIsNoOp ==
    [][ (/\ status = "running"
         /\ Fetched \in {"PushReg", "PopReg"}
         /\ AfterSelector.status = "running"
         /\ AfterSelector.ret = 0)
        => /\ status' = "running"
           /\ ptr' = PtrPlus(1)
           /\ <<stack, stack_ptr, frame_ptr, flags>>'
                 = <<stack, stack_ptr, frame_ptr, flags>> ]_vars

\* the binary arms that push a result
ResultOps == BinaryOps \ {"Cmp"}
\* the stack-top index after the first and after the second pop of this turn
AfterFirstPop == UsizeInc(stack_ptr)
AfterSecondPop == UsizeInc(AfterFirstPop)
\* a, the value popped first, and b, the value popped second
FirstPopped == stack[AfterFirstPop.lo + 1]
SecondPopped == stack[AfterSecondPop.lo + 1]
\* both pops of this turn read a cell of the stack
TwoOperands ==
    /\ UsizeLt(AfterFirstPop, Len(stack))
    /\ UsizeLt(AfterSecondPop, Len(stack))
    /\ ~(overflow_checks /\ stack_ptr = UsizeMax)
\* a OP b as a 32-bit value, a the left-hand operand
BinaryValue(ins, a, b) ==
    CASE ins = "I32Add" -> I32Add(a, b).v
      [] ins = "I32Sub" -> I32Sub(a, b).v
      [] ins = "I32Mul" -> I32Mul(a, b).v
      [] ins = "I32Div" -> I32Div(a, b)
      [] ins = "Greater" -> IF a > b THEN 1 ELSE 0
      [] ins = "GreaterEqual" -> IF a >= b THEN 1 ELSE 0
      [] ins = "Lesser" -> IF a < b THEN 1 ELSE 0
      [] ins = "LesserEqual" -> IF a <= b THEN 1 ELSE 0
      [] ins = "Equal" -> IF a = b THEN 1 ELSE 0
      [] ins = "NotEqual" -> IF a # b THEN 1 ELSE 0
\* a OP b has no 32-bit result the build lets through
BinaryAborts(ins, a, b) ==
    CASE ins = "I32Add" -> overflow_checks /\ I32Add(a, b).o
      [] ins = "I32Sub" -> overflow_checks /\ I32Sub(a, b).o
      [] ins = "I32Mul" -> overflow_checks /\ I32Mul(a, b).o
      [] ins = "I32Div" -> b = 0 \/ (a = I32Min /\ b = -1)
      [] OTHER -> FALSE

\* C18 as stated, for a stack that holds two values: every binary operator
\* pops a then b and pushes exactly one result, a OP b with the first popped
\* value a as the left-hand operand (1 or 0 for the six comparisons), so that
\* the stack-top index rises by one.
C18_BinaryPushesResult ==
    [][ (status = "running" /\ Fetched \in ResultOps /\ TwoOperands)
        => /\ status' = "running"
           /\ stack_ptr' = AfterFirstPop
           /\ stack' = [stack EXCEPT ![AfterSecondPop.lo + 1] =
                            BinaryValue(Fetched, FirstPopped, SecondPopped)] ]_vars

\* C18, amended: a binary operator that finds two values on the stack pops a
\* then b and either pushes exactly one result into the cell b was in, the
\* wrapped 32-bit a OP b with a as the left-hand operand (1 or 0 for the six
\* comparisons), leaving the stack-top index one higher, or aborts after the
\* two pops without pushing: I32Div when b = 0 or a / b = -2^31 / -1, and
\* under overflow checks I32Add, I32Sub, I32Mul when a OP b overflows. With
\* fewer than two values on the stack the run aborts in a pop.
C18_BinaryResultOrAbort ==
    [][ (status = "running" /\ Fetched \in ResultOps)
        => /\ <<flags, frame_ptr, output>>' = <<flags, frame_ptr, output>>
           /\ ptr' = PtrPlus(0)
           /\ IF ~TwoOperands
              THEN /\ status' = "panicked"
                   /\ panic' \in {"index out of bounds", "attempt to add with overflow"}
                   /\ stack' = stack
              ELSE IF BinaryAborts(Fetched, FirstPopped, SecondPopped)
              THEN /\ status' = "panicked"
                   /\ stack' = stack
                   /\ stack_ptr' = AfterSecondPop
              ELSE /\ status' = "running"
                   /\ stack_ptr' = AfterFirstPop
                   /\ stack' = [stack EXCEPT ![AfterSecondPop.lo + 1] =
                                    BinaryValue(Fetched, FirstPopped, SecondPopped)]
                   /\ stack'[AfterSecondPop.lo + 1] \in {0, 1}
                         \/ Fetched \in {"I32Add", "I32Sub", "I32Mul", "I32Div"}
                   /\ (Fetched = "I32Sub" /\ FirstPopped = 3 /\ SecondPopped = 5)
                         => stack'[AfterSecondPop.lo + 1] = -2
                   /\ (Fetched = "I32Div" /\ FirstPopped = 5 /\ SecondPopped = 3)
                         => stack'[AfterSecondPop.lo + 1] = 1
                   /\ (Fetched = "I32Add" /\ FirstPopped = I32Max /\ SecondPopped = 3)
                         => stack'[AfterSecondPop.lo + 1] = I32Min + 2
                   /\ (Fetched = "I32Mul" /\ FirstPopped = I32Max /\ SecondPopped = 3)
                         => stack'[AfterSecondPop.lo + 1] = I32Max - 2 ]_vars

\* Push 5, Push 3, I32Sub has left 3 - 5 in the cell the 5 was in
C18_Witness ==
    /\ instructions = Assemble(<< InsI32("Push", 5), InsI32("Push", 3), Ins("I32Sub") >>)
    /\ status = "running"
    /\ ptr = Usize(11)
    /\ stack_ptr = Usize(StackSize - 2)
    /\ stack[StackSize] = -2

\* the buffer, decoded from offset 0, has no Jmp, Jz, Call or Ret and no
\* PopReg whose selector byte is 1
TransferFree(bytes) ==
    \A i \in OpcodeOffsetsFrom(bytes, 0) :
        LET ins == InstructionFromU8(get_u8(bytes, i))
        IN  /\ ins \notin {"Jmp", "Jz", "Call", "Ret"}
            /\ ~(ins = "PopReg" /\ i + 1 < Len(bytes) /\ get_u8(bytes, i + 1) = 1)

\* C20: a run of a buffer without control transfers makes at most length + 1
\* fetches, at strictly increasing offsets, and after the last of them it has
\* ended, by a fatal abort or by a clean halt; a running run always has its
\* next turn. In every run, a fetch with the instruction pointer at or past
\* the end of the buffer is a clean halt that changes no stack cell, no
\* register (instruction pointer, stack-top index, frame pointer) and no flag.
C20_BoundedFetches ==
    /\ [](TransferFree(instructions)
            => /\ Len(history) <= Len(instructions) + 1
               /\ \A i, j \in 1..Len(history) :
                     i < j => /\ history[i].val < history[j].val
                              /\ history[i].ok
               /\ status \in {"running", "halted", "panicked"}
               /\ status = "running"
                     => /\ Len(history) <= Len(instructions)
                        /\ Len(output) < MaxOutput
                        /\ \A i \in 1..Len(history) : history[i].val < ptr.lo)
    /\ [][ (status = "running" /\ ~UsizeLt(ptr, Len(instructions)))
           => /\ status' = "halted"
              /\ panic' = ""
              /\ <<stack, stack_ptr, frame_ptr, ptr, flags, output>>'
                    = <<stack, stack_ptr, frame_ptr, ptr, flags, output>> ]_vars

\* Push 1, CompilerCall 1, CompilerCall 1 has run off its end: the fourth
\* fetch, at offset 15 of 15 bytes, was the clean halt
C20_Witness ==
    /\ instructions = Assemble(<< InsI32("Push", 1), InsI32("CompilerCall", 1),
                                  InsI32("CompilerCall", 1) >>)
    /\ TransferFree(instructions)
    /\ status = "halted"
    /\ Len(history) = 4
    /\ history[4] = [op |-> "fetch", val |-> Len(instructions), ok |-> FALSE]
    /\ output = << 1, 1 >>

\* C21: immediately after a Call to target t from stack-top index p and
\* frame pointer f, the return address (the offset after the Call's operand)
\* is in cell p and the saved frame pointer f in cell p-1, no other cell has
\* changed, the stack-top index and the new frame pointer are both p-2 and
\* the instruction pointer is t; a Ret pops these two cells in the reverse
\* order, the saved frame pointer first and the return address second.
C21_CallFrameLayout ==
    [][ /\ (status = "running" /\ Fetched = "Call" /\ status' = "running")
           => /\ UsizeLt(stack_ptr, Len(stack)) /\ stack_ptr.lo >= 1
              /\ I32AsUsize(stack'[stack_ptr.lo + 1]) = PtrPlus(4)
              /\ I32AsUsize(stack'[stack_ptr.lo]) = frame_ptr
              /\ \A i \in 1..Len(stack) :
                    i \notin {stack_ptr.lo, stack_ptr.lo + 1} => stack'[i] = stack[i]
              /\ stack_ptr' = UsizeDec(UsizeDec(stack_ptr))
              /\ frame_ptr' = stack_ptr'
              /\ ptr' = I32AsUsize(AfterOperand.ret)
        /\ (status = "running" /\ Fetched = "Ret" /\ status' = "running")
           => /\ frame_ptr' = I32AsUsize(stack[UsizeInc(stack_ptr).lo + 1])
              /\ ptr' = I32AsUsize(stack[UsizeInc(UsizeInc(stack_ptr)).lo + 1])
              /\ stack_ptr' = UsizeInc(UsizeInc(stack_ptr))
              /\ stack' = stack ]_vars

\* C22: for every pair of 32-bit values lhs (popped first) and rhs on the
\* stack, also when lhs - rhs does not fit in 32 bits, Cmp completes and its
\* flags give the true signed ordering: less_then iff lhs < rhs, larger_then
\* iff lhs > rhs, equals iff lhs = rhs.
C22_CmpTrueOrdering ==
    [][ (status = "running" /\ Fetched = "Cmp" /\ TwoOperands)
        => /\ status' = "running"
           /\ flags'.less_then <=> FirstPopped < SecondPopped
           /\ flags'.larger_then <=> FirstPopped > SecondPopped
           /\ flags'.equals <=> FirstPopped = SecondPopped ]_vars

-----------------------------------------------------------------------------
(* Claims about a host with two Interpreters, checked under SpecTwo *)

\* the machine after n turns of run on its own
RECURSIVE RunAlone(_, _)
RunAlone(m, n) == IF n = 0 THEN m ELSE run_step(RunAlone(m, n - 1))

\* the values instance i has printed, in order
PrintedBy(i) ==
    LET mine == SelectSeq(stdout, LAMBDA line : line.who = i)
    IN  [k \in 1..Len(mine) |-> mine[k].val]

-----------------------------------------------------------------------------
(* Claims about disassembly and execution, checked under SpecDis *)

\* the offsets at which the disassembler has started a line, and those at
\* which the interpreter has fetched an opcode
LineStarts == {op.lines[i].index : i \in 1..Len(op.lines)}
FetchOffsets == {history[i].val : i \in {j \in 1..Len(history) : history[j].ok}}
\* the offset up to which both have gone through the buffer
BothPassed == IF op.index < ptr.lo THEN op.index ELSE ptr.lo

\* C23: over a buffer of whole instructions without control transfers the
\* disassembler reads no byte that is not there, and as far as both have gone
\* through the buffer, the offsets at which the disassembler starts a line
\* are exactly the offsets at which the interpreter fetches an opcode.
C23_SameBoundaries ==
    /\ ~code_panicked
    /\ {o \in LineStarts : o < BothPassed} = {o \in FetchOffsets : o < BothPassed}

====
